---------------------------- MODULE Spec2Model ----------------------------
(***************************************************************************)
(* Verification model of Python/usrmodel.py (LG4X-V2): the edge-padded     *)
(* convolution engine, the composite lineshape functions, the parameter    *)
(* hints of the three lmfit models and their guess methods.                *)
(*                                                                         *)
(* Arithmetic is exact: samples are integers, quotients are kept as        *)
(* fractions, so "within floating-point tolerance" reads as equality.      *)
(***************************************************************************)
EXTENDS Integers, Sequences, FiniteSets, TLC

VARIABLES
    \* convolution engine: the two arguments and what each implementation returned
    data, kernel, res_conv, res_fft,
    \* lineshape functions: the grid length, the primitives evaluated on the grid,
    \* the parameters, and per function the local conv_temp and the returned curve
    xlen, line1, line2, step, gker, amplitude, height_ratio, conv_temp, curve,
    \* derived width of the singlet model: the primary values sigma (in tenths) and
    \* gamma (in hundredths) and the value of the lorentzian_fwhm expression
    p_sigma, p_gamma, lorentzian_fwhm,
    \* model instances: the prefix they were constructed with, the param_hints
    \* dictionary of each, the last guess call and what it returned
    prefix, param_hints, last, ret

convVars == <<data, kernel, res_conv, res_fft>>
shapeVars == <<xlen, line1, line2, step, gker, amplitude, height_ratio, conv_temp, curve>>
exprVars == <<p_sigma, p_gamma, lorentzian_fwhm>>
modelVars == <<prefix, param_hints, last, ret>>
vars == <<convVars, shapeVars, exprVars, modelVars>>

\* a result not yet returned: no call returns an empty sequence
None == << >>

(***************************************************************************)
(* Bounds of the model.                                                    *)
(***************************************************************************)
MaxN == 3
MaxM == 6
DataVals == {0, 1, 2}
KernelVals == {0, 1}
MaxGrid == 2
DoniachVals == {-1, 0, 1}
Line2Vals == {0, 1}
ThermalVals == {0, 1}
GaussVals == {0, 1}
AmpVals == {0, 2}
RatioVals == {0, 2}
MaxSigma == 9
MaxGamma == 10
MaxPts == 2
XVals == {-3, -2, -1}
YVals == {0, 3}
\* instance prefixes: none, and one that no parameter name starts with
Prefixes == {"", "p1_"}

Min2(a, b) == IF a <= b THEN a ELSE b
Max2(a, b) == IF a >= b THEN a ELSE b

SeqsUpTo(S, n) == UNION {[1..k -> S] : k \in 1..n}

(***************************************************************************)
(* Python helpers: int() truncates towards zero, s[n:] counts a negative   *)
(* n from the end, s[:m] stops at the end of s.                            *)
(***************************************************************************)
PyInt2(d) == IF d >= 0 THEN d \div 2 ELSE -((-d) \div 2)

PySliceFrom(s, n) ==
    LET st == IF n >= 0 THEN Min2(n, Len(s)) ELSE Max2(0, Len(s) + n)
    IN  SubSeq(s, st + 1, Len(s))

PySliceTo(s, m) == SubSeq(s, 1, Min2(m, Len(s)))

Ones(n, v) == [i \in 1..n |-> v]

RECURSIVE SumTo(_, _)
SumTo(f, n) == IF n = 0 THEN 0 ELSE f[n] + SumTo(f, n - 1)

(***************************************************************************)
(* padded_data = concatenate((padding*data[0], data, padding*data[-1]))    *)
(***************************************************************************)
PadData(d, L) == Ones(L, d[1]) \o d \o Ones(L, d[Len(d)])

(***************************************************************************)
(* numpy.convolve(a, v, mode='valid'): the shorter argument is the one     *)
(* that slides; the output has max(la, lv) - min(la, lv) + 1 samples.      *)
(***************************************************************************)
NpConvolveValid(a, v) ==
    LET big == IF Len(v) > Len(a) THEN v ELSE a
        sml == IF Len(v) > Len(a) THEN a ELSE v
        lv  == Len(sml)
    IN  [k \in 1..(Len(big) - lv + 1) |->
            SumTo([j \in 1..lv |-> big[k + lv - j] * sml[j]], lv)]

(***************************************************************************)
(* scipy.signal.convolve(a, v, mode='valid', method='fft'): the full       *)
(* linear convolution (what the product of the transforms yields), then    *)
(* the centred crop to the valid shape.                                    *)
(***************************************************************************)
FullConvolve(a, v) ==
    [k \in 1..(Len(a) + Len(v) - 1) |->
        SumTo([i \in 1..Len(a) |->
                  IF k - i + 1 >= 1 /\ k - i + 1 <= Len(v)
                  THEN a[i] * v[k - i + 1] ELSE 0], Len(a))]

Centered(s, newlen) ==
    LET startind == (Len(s) - newlen) \div 2
    IN  SubSeq(s, startind + 1, startind + newlen)

ScConvolveValidFft(a, v) ==
    LET big == IF Len(v) > Len(a) THEN v ELSE a
        sml == IF Len(v) > Len(a) THEN a ELSE v
    IN  Centered(FullConvolve(big, sml), Len(big) - Len(sml) + 1)

(***************************************************************************)
(* convolve / fft_convolve                                                 *)
(***************************************************************************)
NStart_shifted(out, L) == PyInt2(Len(out) - L) - 1

NStart(out, L) == PyInt2(Len(out) - L)

convolve(d, k) ==
    LET min_num_pts == Min2(Len(d), Len(k))
        out == NpConvolveValid(PadData(d, min_num_pts), k)
    IN  PySliceTo(PySliceFrom(out, NStart(out, min_num_pts)), min_num_pts)

fft_convolve_samepad(d, k) ==
    LET min_num_pts == Min2(Len(d), Len(k))
        padded == Ones(min_num_pts, d[1]) \o d \o Ones(min_num_pts, d[1])
        out == ScConvolveValidFft(padded, k)
    IN  PySliceTo(PySliceFrom(out, NStart(out, min_num_pts)), min_num_pts)

fft_convolve(d, k) ==
    LET min_num_pts == Min2(Len(d), Len(k))
        out == ScConvolveValidFft(PadData(d, min_num_pts), k)
    IN  PySliceTo(PySliceFrom(out, NStart(out, min_num_pts)), min_num_pts)

(***************************************************************************)
(* The convolution engine as a state machine: the caller holds data and a  *)
(* kernel and applies either implementation.                               *)
(***************************************************************************)
ModelIdle == prefix = "" /\ param_hints = << >> /\ last = << >> /\ ret = << >>

ExprIdle == p_sigma = 0 /\ p_gamma = 0 /\ lorentzian_fwhm = << >>

ShapeIdle ==
    /\ xlen = 1
    /\ line1 = <<0>> /\ line2 = <<0>> /\ step = <<0>> /\ gker = <<0>>
    /\ amplitude = 0 /\ height_ratio = 0
    /\ conv_temp = None /\ curve = None

InitConv ==
    /\ ShapeIdle
    /\ ExprIdle
    /\ ModelIdle
    /\ data \in SeqsUpTo(DataVals, MaxN)
    /\ kernel \in SeqsUpTo(KernelVals, MaxM)
    /\ res_conv = None
    /\ res_fft = None

Convolve ==
    /\ res_conv = None
    /\ res_conv' = convolve(data, kernel)
    /\ UNCHANGED <<data, kernel, res_fft, shapeVars, exprVars, modelVars>>

FftConvolve ==
    /\ res_fft = None
    /\ res_fft' = fft_convolve(data, kernel)
    /\ UNCHANGED <<data, kernel, res_conv, shapeVars, exprVars, modelVars>>

NextConv == Convolve \/ FftConvolve

(***************************************************************************)
(* C1: convolve and fft_convolve each return exactly min(N, M) samples,    *)
(* for every non-empty data of length N and kernel of length M.            *)
(***************************************************************************)
C1_LengthIsMin ==
    /\ res_conv # None => Len(res_conv) = Min2(Len(data), Len(kernel))
    /\ res_fft # None => Len(res_fft) = Min2(Len(data), Len(kernel))

(***************************************************************************)
(* C2: for equal-length data and kernel the two implementations return     *)
(* the same sequence, element by element.                                  *)
(***************************************************************************)
C2_EnginesAgree ==
    (Len(data) = Len(kernel) /\ res_conv # None /\ res_fft # None)
        => res_conv = res_fft

C2_Witness ==
    /\ Len(data) = Len(kernel)
    /\ Len(data) >= 2
    /\ res_conv # None
    /\ res_fft = res_conv
    /\ \E i, j \in 1..Len(res_conv) : res_conv[i] # res_conv[j]

IsMiddleDelta(k) ==
    /\ Len(k) % 2 = 1
    /\ \A i \in 1..Len(k) : k[i] = (IF 2 * i = Len(k) + 1 THEN 1 ELSE 0)

(***************************************************************************)
(* C9: with data of odd length L and the kernel of length L that is 1 at   *)
(* the middle index and 0 elsewhere, both implementations return data      *)
(* itself; n_start is floor((len(out) - L)/2) and the window               *)
(* out[n_start : n_start + L] lies inside out.                             *)
(***************************************************************************)
C9_WindowAligned ==
    (Len(data) = Len(kernel) /\ IsMiddleDelta(kernel)) =>
        LET L == Len(data)
            out == NpConvolveValid(PadData(data, L), kernel)
            fout == ScConvolveValidFft(PadData(data, L), kernel)
        IN  /\ res_conv # None => res_conv = data
            /\ res_fft # None => res_fft = data
            /\ NStart(out, L) = (Len(out) - L) \div 2
            /\ NStart(out, L) >= 0 /\ NStart(out, L) + L <= Len(out)
            /\ NStart(fout, L) >= 0 /\ NStart(fout, L) + L <= Len(fout)

C9_Witness ==
    /\ Len(data) = 3
    /\ Len(kernel) = 3
    /\ IsMiddleDelta(kernel)
    /\ data[1] # data[2] /\ data[2] # data[3]
    /\ res_conv = data
    /\ res_fft = data

(***************************************************************************)
(* Fractions.  A curve element amplitude * c / m is kept as num/den with   *)
(* den >= 0; den = 0 is numpy's division by zero: nan (0/0), inf or -inf.  *)
(***************************************************************************)
Frac(num, den) ==
    IF den < 0 THEN [num |-> -num, den |-> -den] ELSE [num |-> num, den |-> den]

IsNan(a) == a.den = 0 /\ a.num = 0

FracGt(a, b) ==
    /\ ~IsNan(a)
    /\ ~IsNan(b)
    /\ IF a.den = 0 /\ b.den = 0 THEN a.num > b.num
       ELSE a.num * b.den > b.num * a.den

FracEqInt(a, v) == a.den > 0 /\ a.num = v * a.den

\* Python's builtin max over a sequence: keep the first, replace on item > best
RECURSIVE PyMaxIntFrom(_, _, _)
PyMaxIntFrom(s, i, best) ==
    IF i > Len(s) THEN best
    ELSE PyMaxIntFrom(s, i + 1, IF s[i] > best THEN s[i] ELSE best)

RECURSIVE PyMaxFracFrom(_, _, _)
PyMaxFracFrom(s, i, best) ==
    IF i > Len(s) THEN best
    ELSE PyMaxFracFrom(s, i + 1, IF FracGt(s[i], best) THEN s[i] ELSE best)

PyMaxInt(s) == PyMaxIntFrom(s, 2, s[1])
PyMaxFrac(s) == PyMaxFracFrom(s, 2, s[1])

(***************************************************************************)
(* Primitive lineshapes of lmfit.  doniach(x, amplitude, ...) is           *)
(* amplitude times the unit-amplitude profile on the grid; the profiles    *)
(* themselves (line1 at center/sigma, line2 at center - soc and            *)
(* fct_coster_kronig * sigma, step for the thermal distribution, gker for  *)
(* the scaled Gaussian) are inputs of the model.                           *)
(***************************************************************************)
Doniach(amp, unit) == [i \in 1..Len(unit) |-> amp * unit[i]]

AddCurves(a, b) == [i \in 1..Len(a) |-> a[i] + b[i]]

Normalize_nomax(amp, ct) ==
    [i \in 1..Len(ct) |-> Frac(amp * ct[i], ct[1])]

\* amplitude * conv_temp / max(conv_temp)
Normalize(amp, ct) ==
    LET m == PyMaxInt(ct)
    IN  [i \in 1..Len(ct) |-> Frac(amp * ct[i], m)]

DublettRaw_fullsecond(l1, l2, hr, g) ==
    fft_convolve(AddCurves(Doniach(1, l1), Doniach(1, l2)), g)

DublettRaw(l1, l2, hr, g) ==
    fft_convolve(AddCurves(Doniach(1, l1), Doniach(hr, l2)), g)

SinglettRaw(l1, g) == fft_convolve(Doniach(1, l1), g)

FermiRaw(st, g) == fft_convolve(st, g)

Fns == {"singlett", "dublett", "fermi_edge"}

ConvIdle ==
    data = <<0>> /\ kernel = <<0>> /\ res_conv = None /\ res_fft = None

InitShape ==
    /\ ConvIdle
    /\ ExprIdle
    /\ ModelIdle
    /\ xlen \in 1..MaxGrid
    /\ line1 \in [1..xlen -> DoniachVals]
    /\ line2 \in [1..xlen -> Line2Vals]
    /\ step \in [1..xlen -> ThermalVals]
    /\ gker \in [1..xlen -> GaussVals]
    /\ amplitude \in AmpVals
    /\ height_ratio \in RatioVals
    /\ conv_temp = [f \in Fns |-> None]
    /\ curve = [f \in Fns |-> None]

Returned(f, ct) ==
    /\ conv_temp' = [conv_temp EXCEPT ![f] = ct]
    /\ curve' = [curve EXCEPT ![f] = Normalize(amplitude, ct)]
    /\ UNCHANGED <<xlen, line1, line2, step, gker, amplitude, height_ratio, convVars, exprVars, modelVars>>

Singlett ==
    /\ curve["singlett"] = None
    /\ Returned("singlett", SinglettRaw(line1, gker))

Dublett ==
    /\ curve["dublett"] = None
    /\ Returned("dublett", DublettRaw(line1, line2, height_ratio, gker))

FermiEdge ==
    /\ curve["fermi_edge"] = None
    /\ Returned("fermi_edge", FermiRaw(step, gker))

NextShape == Singlett \/ Dublett \/ FermiEdge

MaxIsAmplitude(f) ==
    /\ Len(curve[f]) = xlen
    /\ FracEqInt(PyMaxFrac(curve[f]), amplitude)

(***************************************************************************)
(* C3 as stated: for every parameter set the declared bounds allow, the    *)
(* curve of singlett, dublett and fermi_edge has the length of x and its   *)
(* maximum equals amplitude.                                               *)
(***************************************************************************)
C3_MaxIsAmplitude_AllParams ==
    \A f \in Fns : curve[f] # None => MaxIsAmplitude(f)

(***************************************************************************)
(* C3 amended: whenever the raw convolution conv_temp has a positive       *)
(* maximum, the curve has the length of x and its maximum equals           *)
(* amplitude.                                                              *)
(***************************************************************************)
C3_MaxIsAmplitude ==
    \A f \in Fns :
        (curve[f] # None /\ PyMaxInt(conv_temp[f]) > 0) => MaxIsAmplitude(f)

C3_Witness ==
    /\ xlen >= 2
    /\ amplitude > 0
    /\ \A f \in Fns :
        /\ curve[f] # None
        /\ PyMaxInt(conv_temp[f]) > 0
        /\ \E i, j \in 1..xlen : conv_temp[f][i] # conv_temp[f][j]

(***************************************************************************)
(* C4: with height_ratio = 0 dublett returns the curve singlett returns    *)
(* for the shared parameters, whatever soc and fct_coster_kronig (the      *)
(* second profile line2) are.                                              *)
(***************************************************************************)
C4_DublettIsSinglett ==
    (height_ratio = 0 /\ curve["dublett"] # None /\ curve["singlett"] # None)
        => curve["dublett"] = curve["singlett"]

C4_Witness ==
    /\ height_ratio = 0
    /\ xlen >= 2
    /\ amplitude > 0
    /\ \E i \in 1..xlen : line2[i] # 0
    /\ curve["dublett"] # None
    /\ curve["dublett"] = curve["singlett"]
    /\ PyMaxInt(conv_temp["dublett"]) > 0

(***************************************************************************)
(* Exact natural numbers beyond 32-bit integers: limbs in                  *)
(* base 10000, least significant first, no leading zero limb (zero is the  *)
(* empty sequence).                                                        *)
(***************************************************************************)
RECURSIVE BigFromInt(_)
BigFromInt(v) == IF v = 0 THEN << >> ELSE <<v % 10000>> \o BigFromInt(v \div 10000)

RECURSIVE BigAddFrom(_, _, _, _)
BigAddFrom(a, b, i, carry) ==
    IF i > Len(a) /\ i > Len(b)
    THEN BigFromInt(carry)
    ELSE LET t == (IF i <= Len(a) THEN a[i] ELSE 0)
                  + (IF i <= Len(b) THEN b[i] ELSE 0) + carry
         IN  <<t % 10000>> \o BigAddFrom(a, b, i + 1, t \div 10000)

BigAdd(a, b) ==
    IF a = << >> THEN b ELSE IF b = << >> THEN a ELSE BigAddFrom(a, b, 1, 0)

\* a times a machine integer 0 <= k < 100000
RECURSIVE BigMulIntFrom(_, _, _, _)
BigMulIntFrom(a, k, i, carry) ==
    IF i > Len(a)
    THEN BigFromInt(carry)
    ELSE LET t == a[i] * k + carry
         IN  <<t % 10000>> \o BigMulIntFrom(a, k, i + 1, t \div 10000)

BigMulInt(a, k) == IF k = 0 \/ a = << >> THEN << >> ELSE BigMulIntFrom(a, k, 1, 0)

BigShift(a) == IF a = << >> THEN << >> ELSE <<0>> \o a

RECURSIVE BigMul(_, _)
BigMul(a, b) ==
    IF b = << >> THEN << >>
    ELSE BigAdd(BigMulInt(a, Head(b)), BigShift(BigMul(a, Tail(b))))

BigLess(a, b) ==
    IF Len(a) # Len(b) THEN Len(a) < Len(b)
    ELSE \E i \in 1..Len(a) :
            /\ a[i] < b[i]
            /\ \A j \in (i + 1)..Len(a) : a[j] = b[j]

RECURSIVE BigPow(_, _)
BigPow(a, e) == IF e = 0 THEN <<1>> ELSE BigMul(a, BigPow(a, e - 1))

(***************************************************************************)
(* The lorentzian_fwhm expression as the framework evaluates it:           *)
(*     sigma*(2 + gamma*2.5135 + (gamma*3.6398)**4)                        *)
(* with sigma = s/10 and gamma = g/100.  The value is returned in units    *)
(* of 10^-25: gamma*2.5135 is g*25135 * 10^-6, gamma*3.6398 is             *)
(* g*36398 * 10^-6, whose 4th power is in units of 10^-24.                 *)
(***************************************************************************)
Ten18 == BigPow(BigFromInt(1000), 6)

LorentzianFwhm_sigmaforgamma(s, g) ==
    BigMulInt(BigAdd(BigAdd(BigMulInt(BigMul(Ten18, BigFromInt(1000000)), 2),
                            BigMul(BigFromInt(s * 25135), Ten18)),
                     BigPow(BigFromInt(s * 36398), 4)),
              s)

LorentzianFwhm(s, g) ==
    BigMulInt(BigAdd(BigAdd(BigMulInt(BigMul(Ten18, BigFromInt(1000000)), 2),
                            BigMul(BigFromInt(g * 25135), Ten18)),
                     BigPow(BigFromInt(g * 36398), 4)),
              s)

InitExpr ==
    /\ ConvIdle
    /\ ShapeIdle
    /\ ModelIdle
    /\ p_sigma \in 0..MaxSigma
    /\ p_gamma \in 0..MaxGamma
    /\ lorentzian_fwhm = LorentzianFwhm(p_sigma, p_gamma)

\* the optimizer moves a primary value inside its bounds (sigma >= 0,
\* gamma >= 0); the framework re-evaluates the derived parameter
SetGamma ==
    \E g \in 0..MaxGamma :
        /\ g # p_gamma
        /\ p_gamma' = g
        /\ lorentzian_fwhm' = LorentzianFwhm(p_sigma, g)
        /\ UNCHANGED <<p_sigma, convVars, shapeVars, modelVars>>

SetSigma ==
    \E sg \in 0..MaxSigma :
        /\ sg # p_sigma
        /\ p_sigma' = sg
        /\ lorentzian_fwhm' = LorentzianFwhm(sg, p_gamma)
        /\ UNCHANGED <<p_gamma, convVars, shapeVars, modelVars>>

NextExpr == SetGamma \/ SetSigma

(***************************************************************************)
(* C8 as stated: for every sigma >= 0, raising gamma (gamma >= 0) strictly *)
(* raises lorentzian_fwhm.                                                 *)
(***************************************************************************)
C8_StrictlyIncreasing_AllSigma ==
    [][(p_sigma' = p_sigma /\ p_gamma' > p_gamma)
          => BigLess(lorentzian_fwhm, lorentzian_fwhm')]_vars

(***************************************************************************)
(* C8 amended: for every sigma > 0, raising gamma (gamma >= 0) strictly    *)
(* raises lorentzian_fwhm.                                                 *)
(***************************************************************************)
C8_StrictlyIncreasing ==
    [][(p_sigma' = p_sigma /\ p_sigma > 0 /\ p_gamma' > p_gamma)
          => BigLess(lorentzian_fwhm, lorentzian_fwhm')]_vars

C8_Witness ==
    /\ p_sigma > 0
    /\ p_gamma > 0
    /\ BigLess(LorentzianFwhm(p_sigma, 0), lorentzian_fwhm)

(***************************************************************************)
(* Parameter values are fractions with den > 0; -inf and +inf, lmfit's     *)
(* default bounds, are -1/0 and 1/0.                                       *)
(***************************************************************************)
F(v) == Frac(v, 1)
NegInf == [num |-> -1, den |-> 0]
PosInf == [num |-> 1, den |-> 0]

FracLess(a, b) ==
    IF a.den = b.den THEN a.num < b.num
    ELSE a.num * b.den < b.num * a.den

FracLeq(a, b) == ~FracLess(b, a)
FracSame(a, b) == ~FracLess(a, b) /\ ~FracLess(b, a)
FracAdd(a, b) == Frac(a.num * b.den + b.num * a.den, a.den * b.den)
FracDiv(a, k) == Frac(a.num, a.den * k)

RECURSIVE PyMinIntFrom(_, _, _)
PyMinIntFrom(s, i, best) ==
    IF i > Len(s) THEN best
    ELSE PyMinIntFrom(s, i + 1, IF s[i] < best THEN s[i] ELSE best)

PyMinInt(s) == PyMinIntFrom(s, 2, s[1])
PySum(s) == SumTo(s, Len(s))

\* kb = 8.6173e-5
kb == [num |-> 86173, den |-> 1000000000]
FracTimes(a, k) == Frac(a.num * k, a.den)

(***************************************************************************)
(* lmfit.Model.set_param_hint: param_hints maps a parameter name to a      *)
(* dictionary of hint items; the items given overwrite the stored ones,    *)
(* the other items stay.  (A prefix that a parameter name starts with is   *)
(* not modelled: see Prefixes.)                                            *)
(***************************************************************************)
EmptyDict == [k \in {} |-> 0]

DictUpdate(d, kw) ==
    [k \in (DOMAIN d) \cup (DOMAIN kw) |-> IF k \in DOMAIN kw THEN kw[k] ELSE d[k]]

SetParamHint(h, name, kw) ==
    LET old == IF name \in DOMAIN h THEN h[name] ELSE EmptyDict
    IN  [k \in (DOMAIN h) \cup {name} |->
            IF k = name THEN DictUpdate(old, kw) ELSE h[k]]

RECURSIVE ApplyHints(_, _)
ApplyHints(h, calls) ==
    IF calls = << >> THEN h
    ELSE ApplyHints(SetParamHint(h, calls[1][1], calls[1][2]), Tail(calls))

(***************************************************************************)
(* Constraint expressions.  A template is a sequence of tokens: the        *)
(* placeholder {pre:s}, an identifier, or operator/number text.            *)
(* str.format puts the prefix where the placeholder stands, so the         *)
(* identifier that follows it becomes prefix + identifier.                 *)
(***************************************************************************)
PRE == <<"pre", "">>
ID(b) == <<"id", b>>
OP(t) == <<"op", t>>

Format(t, pre) ==
    LET sub == [i \in 1..Len(t) |->
                   IF t[i][1] = "id" /\ i > 1 /\ t[i - 1][1] = "pre"
                   THEN ID(pre \o t[i][2])
                   ELSE IF t[i][1] = "pre"
                             /\ (i = Len(t) \/ t[i + 1][1] # "id") /\ pre # ""
                        THEN ID(pre)
                        ELSE t[i]]
        Keep(tk) == tk[1] # "pre"
    IN  SelectSeq(sub, Keep)

\* functions of the expression evaluator, not parameter names
AstevalFunctions == {"sqrt"}

Refs(e) == {e[i][2] : i \in {j \in 1..Len(e) : e[j][1] = "id"}} \ AstevalFunctions

g_fwhm_expr == <<OP("2*"), PRE, ID("gaussian_sigma"), OP("*1.1774")>>

LorentzianTemplate ==
    <<PRE, ID("sigma"), OP("*(2+"), PRE, ID("gamma"), OP("*2.5135+("),
      PRE, ID("gamma"), OP("*3.6398)**4)")>>

l_fwhm_expr == LorentzianTemplate
l_p1_fwhm_expr == LorentzianTemplate
l_p2_fwhm_expr == LorentzianTemplate \o <<OP("*"), PRE, ID("fct_coster_kronig")>>

VoigtTemplate(lor) ==
    <<OP("0.5346*"), PRE, ID(lor), OP("+"), ID("sqrt"), OP("(0.2166*"), PRE, ID(lor),
      OP("**2+"), PRE, ID("gaussian_fwhm"), OP("**2)")>>

full_fwhm_expr == VoigtTemplate("lorentzian_fwhm")
fwhm_p1_expr == VoigtTemplate("lorentzian_fwhm_p1")
fwhm_p2_expr == VoigtTemplate("lorentzian_fwhm_p2")

h_expr == <<PRE, ID("amplitude")>>
h_p1_expr == <<PRE, ID("amplitude")>>
h_p2_expr == <<PRE, ID("amplitude"), OP("*"), PRE, ID("height_ratio")>>

area_expr_unprefixed == <<ID("fwhm"), OP("*"), PRE, ID("height")>>

area_expr == <<PRE, ID("fwhm"), OP("*"), PRE, ID("height")>>
area_p1_expr == <<PRE, ID("fwhm_p1"), OP("*"), PRE, ID("height_p1")>>
area_p2_expr == <<PRE, ID("fwhm_p2"), OP("*"), PRE, ID("height_p2")>>

Models == {"singlett", "dublett", "fermi_edge"}

\* the parameters of the curve function each model wraps (all arguments but x)
FuncArgs(m) ==
    CASE m = "singlett" -> {"amplitude", "sigma", "gamma", "gaussian_sigma", "center"}
      [] m = "dublett" -> {"amplitude", "sigma", "gamma", "gaussian_sigma", "center",
                           "soc", "height_ratio", "fct_coster_kronig"}
      [] m = "fermi_edge" -> {"amplitude", "center", "kt", "sigma"}

(***************************************************************************)
(* _set_paramhints_prefix of the three models                              *)
(***************************************************************************)
SinglettParamHints(pre) ==
    ApplyHints(EmptyDict, <<
        <<"amplitude", [value |-> F(100), min |-> F(0)]>>,
        <<"sigma", [value |-> Frac(2, 10), min |-> F(0)]>>,
        <<"gamma", [value |-> Frac(2, 100), min |-> F(0)]>>,
        <<"gaussian_sigma", [value |-> Frac(2, 10), min |-> F(0)]>>,
        <<"center", [value |-> F(100), min |-> F(0)]>>,
        <<"gaussian_fwhm", [expr |-> Format(g_fwhm_expr, pre)]>>,
        <<"lorentzian_fwhm", [expr |-> Format(l_fwhm_expr, pre)]>>,
        <<"fwhm", [expr |-> Format(full_fwhm_expr, pre)]>>,
        <<"height", [expr |-> Format(h_expr, pre)]>>,
        <<"area", [expr |-> Format(area_expr, pre)]>> >>)

DublettParamHints(pre) ==
    ApplyHints(EmptyDict, <<
        <<"amplitude", [value |-> F(100), min |-> F(0)]>>,
        <<"sigma", [value |-> Frac(2, 10), min |-> F(0)]>>,
        <<"gamma", [value |-> Frac(2, 100), min |-> F(0)]>>,
        <<"gaussian_sigma", [value |-> Frac(2, 10), min |-> F(0)]>>,
        <<"center", [value |-> F(285)]>>,
        <<"soc", [value |-> F(2)]>>,
        <<"height_ratio", [value |-> Frac(75, 100), min |-> F(0)]>>,
        <<"fct_coster_kronig", [value |-> F(1), min |-> F(0)]>>,
        <<"gaussian_fwhm", [expr |-> Format(g_fwhm_expr, pre)]>>,
        <<"lorentzian_fwhm_p1", [expr |-> Format(l_p1_fwhm_expr, pre)]>>,
        <<"lorentzian_fwhm_p2", [expr |-> Format(l_p2_fwhm_expr, pre)]>>,
        <<"fwhm_p1", [expr |-> Format(fwhm_p1_expr, pre)]>>,
        <<"fwhm_p2", [expr |-> Format(fwhm_p2_expr, pre)]>>,
        <<"height_p1", [expr |-> Format(h_p1_expr, pre)]>>,
        <<"height_p2", [expr |-> Format(h_p2_expr, pre)]>>,
        <<"area_p1", [expr |-> Format(area_p1_expr, pre)]>>,
        <<"area_p2", [expr |-> Format(area_p2_expr, pre)]>> >>)

FermiParamHints(pre) ==
    ApplyHints(EmptyDict, <<
        <<"kt", [value |-> Frac(2585, 100000), min |-> F(0)]>>,
        <<"sigma", [value |-> Frac(2, 10), min |-> F(0)]>>,
        <<"center", [value |-> F(100), min |-> F(0)]>>,
        <<"amplitude", [value |-> F(100), min |-> F(0)]>> >>)

\* __init__ of each class: the hints right after construction
ConstructedHints(pre) ==
    [m \in Models |->
        CASE m = "singlett" -> SinglettParamHints(pre)
          [] m = "dublett" -> DublettParamHints(pre)
          [] m = "fermi_edge" -> FermiParamHints(pre)]

(***************************************************************************)
(* lmfit.Parameter: setting value, min or max re-establishes the bounds    *)
(* (min and max swapped when min > max, min == max an error) and clips     *)
(* the value into them.                                                    *)
(***************************************************************************)
NewParameter ==
    [value |-> NegInf, min |-> NegInf, max |-> PosInf, expr |-> << >>, err |-> FALSE]

InitBounds(p) ==
    LET swap == FracLess(p.max, p.min)
        lo == IF swap THEN p.max ELSE p.min
        hi == IF swap THEN p.min ELSE p.max
        v  == IF FracLess(hi, p.value) THEN hi
              ELSE IF FracLess(p.value, lo) THEN lo ELSE p.value
    IN  [value |-> v, min |-> lo, max |-> hi, expr |-> p.expr,
         err |-> p.err \/ FracSame(lo, hi)]

SetValue(p, v) == InitBounds([p EXCEPT !.value = v])
SetMin(p, v) == InitBounds([p EXCEPT !.min = v])
SetMax(p, v) == InitBounds([p EXCEPT !.max = v])

ApplyHint(p, hint) ==
    LET p1 == IF "value" \in DOMAIN hint THEN SetValue(p, hint.value) ELSE p
        p2 == IF "min" \in DOMAIN hint THEN SetMin(p1, hint.min) ELSE p1
        p3 == IF "max" \in DOMAIN hint THEN SetMax(p2, hint.max) ELSE p2
    IN  IF "expr" \in DOMAIN hint THEN [p3 EXCEPT !.expr = hint.expr] ELSE p3

BaseName(name, pre) == SubSeq(name, Len(pre) + 1, Len(name))

\* lmfit.Model.make_params(**kwargs): one Parameter per function argument and
\* per hint, named prefix + name; hints first, then the values passed in
make_params(m, h, pre, kwargs) ==
    LET bases == FuncArgs(m) \cup DOMAIN h
        Par(b) ==
            LET hinted == IF b \in DOMAIN h THEN ApplyHint(NewParameter, h[b])
                          ELSE NewParameter
            IN  IF b \in DOMAIN kwargs THEN SetValue(hinted, kwargs[b]) ELSE hinted
    IN  [name \in {pre \o b : b \in bases} |-> Par(BaseName(name, pre))]

\* lmfit.models.update_param_vals(pars, prefix, **kwargs)
update_param_vals(pars, pre, kwargs) ==
    [name \in DOMAIN pars |->
        IF BaseName(name, pre) \in DOMAIN kwargs
        THEN SetValue(pars[name], kwargs[BaseName(name, pre)])
        ELSE pars[name]]

RetNone == [kind |-> "None", pars |-> EmptyDict]

Returns(pars) ==
    IF \E name \in DOMAIN pars : pars[name].err
    THEN [kind |-> "ValueError", pars |-> EmptyDict]
    ELSE [kind |-> "Parameters", pars |-> pars]

Absent == << >>

(***************************************************************************)
(* guess of the three models.  Each returns the hints it leaves in the     *)
(* instance and the value it returns.  pk is what guess_from_peak gave     *)
(* for (data, x) together with the rescaled amplitude doniach_ampl, whose  *)
(* square roots have no exact value: both are inputs of the model.         *)
(***************************************************************************)
SinglettGuessHints(h, x) ==
    LET span == Frac(3 * (x[Len(x)] - x[1]), 10)
    IN  SetParamHint(SetParamHint(h, "sigma", [max |-> span]),
                     "gaussian_sigma", [max |-> span])

DublettGuessHints_boundsigma(h, x) ==
    SetParamHint(h, "sigma", [max |-> Frac(3 * (x[Len(x)] - x[1]), 10)])

DublettGuessHints(h, x) == h

FermiGuessHints_valueonly(h, d, x) ==
    LET h1 == SetParamHint(h, "center", [value |-> Frac(PySum(x), Len(x))])
        h2 == SetParamHint(h1, "kt",
                  [value |-> FracTimes(kb, 300), min |-> F(0), max |-> FracTimes(kb, 1500)])
        h3 == SetParamHint(h2, "amplitude",
                  [value |-> Frac(PyMaxInt(d) - PyMinInt(d), 10), min |-> F(0),
                   max |-> F(PyMaxInt(d) - PyMinInt(d))])
    IN  SetParamHint(h3, "sigma",
            [value |-> Frac(PyMaxInt(x) - PyMinInt(x), Len(x)), min |-> F(0), max |-> F(2)])

FermiGuessHints(h, d, x) ==
    LET h1 == SetParamHint(h, "center",
                  [value |-> Frac(PySum(x), Len(x)), min |-> F(PyMinInt(x)),
                   max |-> F(PyMaxInt(x))])
        h2 == SetParamHint(h1, "kt",
                  [value |-> FracTimes(kb, 300), min |-> F(0), max |-> FracTimes(kb, 1500)])
        h3 == SetParamHint(h2, "amplitude",
                  [value |-> Frac(PyMaxInt(d) - PyMinInt(d), 10), min |-> F(0),
                   max |-> F(PyMaxInt(d) - PyMinInt(d))])
    IN  SetParamHint(h3, "sigma",
            [value |-> Frac(PyMaxInt(x) - PyMinInt(x), Len(x)), min |-> F(0), max |-> F(2)])

SinglettGuess(h, pre, x, kw, pk) ==
    IF x = Absent THEN [hints |-> h, ret |-> RetNone]
    ELSE LET h2 == SinglettGuessHints(h, x)
             gaussian_sigma == FracDiv(FracAdd(pk.sigma, F(x[2] - x[1])), 2)
             params == make_params("singlett", h2, pre,
                           [amplitude |-> pk.doniach_ampl, sigma |-> pk.sigma,
                            gamma |-> pk.gamma, gaussian_sigma |-> gaussian_sigma,
                            center |-> pk.center])
         IN  [hints |-> h2, ret |-> Returns(update_param_vals(params, pre, kw))]

DublettGuess(h, pre, x, kw, pk) ==
    IF x = Absent THEN [hints |-> h, ret |-> RetNone]
    ELSE LET h2 == DublettGuessHints(h, x)
             gaussian_sigma == FracDiv(FracAdd(pk.sigma, F(x[2] - x[1])), 2)
             soc_guess == Frac(3 * (x[Len(x)] - x[1]), 10)
             params == make_params("dublett", h2, pre,
                           [amplitude |-> pk.doniach_ampl, sigma |-> FracDiv(pk.sigma, 5),
                            gamma |-> pk.gamma, gaussian_sigma |-> FracDiv(gaussian_sigma, 5),
                            center |-> pk.center, soc |-> soc_guess,
                            height_ratio |-> F(1)])
         IN  [hints |-> h2, ret |-> Returns(update_param_vals(params, pre, kw))]

FermiGuess_noguard(h, pre, d, x, kw) ==
    IF x = Absent
    THEN [hints |-> h, ret |-> Returns(make_params("fermi_edge", h, pre, EmptyDict))]
    ELSE LET h2 == FermiGuessHints(h, d, x)
             params == make_params("fermi_edge", h2, pre, EmptyDict)
         IN  [hints |-> h2, ret |-> Returns(update_param_vals(params, pre, kw))]

FermiGuess(h, pre, d, x, kw) ==
    IF x = Absent THEN [hints |-> h, ret |-> RetNone]
    ELSE LET h2 == FermiGuessHints(h, d, x)
             params == make_params("fermi_edge", h2, pre, EmptyDict)
         IN  [hints |-> h2, ret |-> Returns(update_param_vals(params, pre, kw))]

(***************************************************************************)
(* One instance of each model, all constructed with the same prefix, and   *)
(* callers that call guess in any order with any data.                     *)
(***************************************************************************)
\* sample grids are strictly increasing
Grids ==
    {g \in UNION {[1..k -> XVals] : k \in 2..MaxPts} :
        \A i \in 1..(Len(g) - 1) : g[i] < g[i + 1]}
Signals(k) == [1..k -> YVals]
AllSignals == UNION {Signals(k) : k \in 2..MaxPts}

Overrides == {EmptyDict, [center |-> F(5)]}

PeakGuesses ==
    { [sigma |-> Frac(1, 2), gamma |-> F(0), center |-> F(-1), doniach_ampl |-> F(7)],
      [sigma |-> F(2), gamma |-> F(0), center |-> F(3), doniach_ampl |-> F(0)] }

NoCall == [model |-> "none", x |-> Absent, data |-> << >>, kw |-> EmptyDict]

InitModel ==
    /\ ConvIdle
    /\ ShapeIdle
    /\ ExprIdle
    /\ prefix \in Prefixes
    /\ param_hints = ConstructedHints(prefix)
    /\ last = NoCall
    /\ ret = RetNone

Called(m, d, x, kw, out) ==
    /\ param_hints' = [param_hints EXCEPT ![m] = out.hints]
    /\ ret' = out.ret
    /\ last' = [model |-> m, x |-> x, data |-> d, kw |-> kw]
    /\ UNCHANGED <<prefix, convVars, shapeVars, exprVars>>

\* data only feeds guess_from_peak, whose outcome is pk
GuessSinglett ==
    \E x \in Grids \cup {Absent}, kw \in Overrides, pk \in PeakGuesses :
        Called("singlett", << >>, x, kw,
               SinglettGuess(param_hints["singlett"], prefix, x, kw, pk))

GuessDublett ==
    \E x \in Grids \cup {Absent}, kw \in Overrides, pk \in PeakGuesses :
        Called("dublett", << >>, x, kw,
               DublettGuess(param_hints["dublett"], prefix, x, kw, pk))

GuessFermi ==
    \E d \in AllSignals, kw \in Overrides :
        \E x \in {g \in Grids : Len(g) = Len(d)} \cup {Absent} :
            Called("fermi_edge", d, x, kw,
                   FermiGuess(param_hints["fermi_edge"], prefix, d, x, kw))

NextModel == GuessSinglett \/ GuessDublett \/ GuessFermi

FermiCase ==
    /\ last.model = "fermi_edge"
    /\ last.x # Absent
    /\ last.kw = EmptyDict
    /\ PyMaxInt(last.x) > PyMinInt(last.x)
    /\ PyMaxInt(last.data) > PyMinInt(last.data)

(***************************************************************************)
(* C5: FermiEdgeModel.guess(data, x) with non-degenerate data and x        *)
(* returns center in [min(x), max(x)] and amplitude in                     *)
(* [0, max(data) - min(data)], whatever guess calls came before.           *)
(***************************************************************************)
C5_GuessBounds ==
    FermiCase =>
        /\ ret.kind = "Parameters"
        /\ LET c == ret.pars[prefix \o "center"].value
               a == ret.pars[prefix \o "amplitude"].value
           IN  /\ FracLeq(F(PyMinInt(last.x)), c)
               /\ FracLeq(c, F(PyMaxInt(last.x)))
               /\ FracLeq(F(0), a)
               /\ FracLeq(a, F(PyMaxInt(last.data) - PyMinInt(last.data)))

\* a Fermi guess that is not the first guess call: the singlet has guessed before
C5_Witness ==
    /\ FermiCase
    /\ ret.kind = "Parameters"
    /\ ret.pars[prefix \o "center"].value = Frac(PySum(last.x), Len(last.x))
    /\ param_hints["singlett"] # ConstructedHints(prefix)["singlett"]

GuessWrites(m, name) ==
    CASE m = "singlett" ->
            IF name \in {"sigma", "gaussian_sigma"} THEN {"max"} ELSE {}
      [] m = "dublett" -> {}
      [] m = "fermi_edge" -> {"value", "min", "max"}

C7_AbsentGridNoOp ==
    [][(last'.x = Absent) => (ret' = RetNone /\ param_hints' = param_hints)]_vars

C7_Witness ==
    /\ last.model = "fermi_edge"
    /\ last.x = Absent
    /\ last.kw # EmptyDict
    /\ ret = RetNone
    /\ param_hints = ConstructedHints(prefix)

Declared(m) == {prefix \o b : b \in FuncArgs(m) \cup DOMAIN param_hints[m]}

Derived(m) == {b \in DOMAIN param_hints[m] : "expr" \in DOMAIN param_hints[m][b]}

DerivedDeps(m, b) ==
    {d \in Derived(m) : prefix \o d \in Refs(param_hints[m][b].expr)}

RECURSIVE Reach(_, _, _)
Reach(m, S, k) ==
    IF k = 0 THEN S
    ELSE Reach(m, S \cup UNION {DerivedDeps(m, b) : b \in S}, k - 1)

SpecConv == InitConv /\ [][NextConv]_vars

SpecShape == InitShape /\ [][NextShape]_vars

SpecExpr == InitExpr /\ [][NextExpr]_vars

SpecModel == InitModel /\ [][NextModel]_vars

=============================================================================
